---- MODULE Spec2Model ----
(***************************************************************************)
(* A model of cfcli (src/cfcli.py): the CFSession API client (response     *)
(* cache, request signing, call_api with its retry-with-backoff recursion) *)
(* and the status command's verdict polling loop.                          *)
(*                                                                         *)
(* Spec        the API client: one process calling call_api repeatedly,    *)
(*             one step per network request, the clock ticking in between. *)
(* SpecStatus  the status command: web_login, then the polling loop, one   *)
(*             step per fetch.                                             *)
(***************************************************************************)
EXTENDS Integers, Sequences, FiniteSets, TLC

VARIABLES
    handle, api_key, api_secret,  \* CFSession credentials ("" is unset/None)
    cache,                        \* CACHE_DIR: cache key -> [payload, storedAt]
    now,                          \* the wall clock, in seconds
    pc,                           \* "idle" | "request" | "done"
    callMethod, callParams,       \* arguments the caller passed to call_api
    curParams,                    \* the params dict object, as mutated so far
    curKey,                       \* cache_key local of the innermost call_api
    stack,                        \* attempt index of every pending _retry_with_backoff
    result,                       \* what the outermost call_api gave its caller
    outcomes,                     \* outcome of every session.get of this call
    delays,                       \* argument of every time.sleep of this call
    wrote,                        \* cache keys written during this call
    calls,                        \* call_api invocations made by this process
    csrf_token, logged_in,        \* CFSession web state
    spc,                          \* status command position
    attempt,                      \* loop variable of the polling loop
    fetches,                      \* session.get calls made by the polling loop
    lastResp,                     \* the response of the latest fetch
    queuedOnly,                   \* every fetch so far returned an in-queue verdict
    sleeps,                       \* argument of every time.sleep of the polling loop
    printed,                      \* what the status command reported at its end
    posts,                        \* every session.post of the process, in order
    loginRun,                     \* the web_login run of the process, if any
    sbPc,                         \* submit command position: "start" | "post" | "end"
    sbResp,                       \* what the solution POST gave
    sbOutcome,                    \* what the submit command reported at its end
    sbFetched,                    \* submit fetched the submit page for a token
    sgMethod, sgParams,           \* method and params dict handed to sign_request
    sgOrder,                      \* insertion order of the keys of that dict
    sgSigs,                       \* every sign_request call: inputs, hashed string, apiSig
    authRand,                     \* the characters random.choice drew last
    authRes,                      \* outcome of the last api_auth_params call
    rtMax, rtBase,                \* arguments max_retries, base_delay of a retry run
    rtPc,                         \* "idle" | "calling" | "returned" | "raised"
    rtAttempt,                    \* loop variable of _retry_with_backoff
    rtSleeps,                     \* argument of every time.sleep of the run
    rtOutcomes,                   \* outcome of every func() of the run
    rtResult,                     \* what _retry_with_backoff gave its caller
    lgRun,                        \* login runs started (the second replays the first)
    lgHandle,                     \* the handle both runs are given
    lgKeys,                       \* the key and the secret each run was given
    lgScript,                     \* what the judge does on each session.get, in order
    lgCache0,                     \* CACHE_DIR as the first run found it
    lgReqs,                       \* the requests each run sent, in order
    lgResults                     \* what each run's login returned

apiVars == <<handle, api_key, api_secret, cache, now, pc, callMethod, callParams,
             curParams, curKey, stack, result, outcomes, delays, wrote, calls>>
webVars == <<csrf_token, logged_in, spc, attempt, fetches, lastResp, queuedOnly,
             sleeps, printed, posts, loginRun>>
submitVars == <<sbPc, sbResp, sbOutcome, sbFetched>>
signVars == <<sgMethod, sgParams, sgOrder, sgSigs, authRand, authRes>>
retryVars == <<rtMax, rtBase, rtPc, rtAttempt, rtSleeps, rtOutcomes, rtResult>>
loginVars == <<lgRun, lgHandle, lgKeys, lgScript, lgCache0, lgReqs, lgResults>>
extVars == <<signVars, retryVars, submitVars, loginVars>>
vars == <<apiVars, webVars, extVars>>

(***************************************************************************)
(* Program constants                                                       *)
(***************************************************************************)
CACHE_TTL == 300
max_retries == 3
base_delay == 1

(***************************************************************************)
(* Bounds of the model                                                     *)
(***************************************************************************)
\* backoff sleeps followed within one call_api (the recursion of call_api and
\* _retry_with_backoff is otherwise bounded only by the interpreter's stack)
MaxSleeps == 3
MaxTime == 301      \* the clock stops ticking here
MaxCalls == 2       \* call_api invocations of one process

TickSteps == {299, 300, 301}
Handles == {"", "alice"}
ApiKeys == {"", "k"}
ApiSecrets == {"", "s"}
Rands == {"x7k2p9"}
Bodies == {"r1", "r2"}
Absent == "<absent>"
Comments == {Absent, "handles: not found"}

(***************************************************************************)
(* Values                                                                  *)
(***************************************************************************)
\* Python None as a response value
NoneVal == [status |-> "<None>", body |-> "", comment |-> Absent]
OkResponses == {[status |-> "OK", body |-> b, comment |-> Absent] : b \in Bodies}
FailedResponses == {[status |-> "FAILED", body |-> "", comment |-> c] : c \in Comments}

EmptyParams == [k \in {} |-> ""]
\* the (method, params) pairs the commands pass: login, fetch
Calls == {<<"user.info", [handles |-> "alice"]>>, <<"contest.list", EmptyParams>>}

\* generate asks for the standings of contest int(contest_id)
ContestIds == {-2, -1, 1}
KeyCalls ==
    {<<"contest.standings", [contestId |-> c, from |-> 1, count |-> 1]>> : c \in ContestIds}
\* the server's answer to contest.standings is about the contest asked for
StandingsOf(id) ==
    [status |-> "OK", body |-> "standings of contest " \o ToString(id), comment |-> Absent]

NoKey == <<"", {}>>
Pending == [kind |-> "pending", data |-> NoneVal, error |-> ""]
Returned(data) == [kind |-> "return", data |-> data, error |-> ""]
Raised(msg) == [kind |-> "raise", data |-> NoneVal, error |-> msg]

\* dict.update
Update(p, q) ==
    [k \in DOMAIN p \cup DOMAIN q |-> IF k \in DOMAIN q THEN q[k] ELSE p[k]]

(***************************************************************************)
(* CFSession                                                               *)
(***************************************************************************)
\* the secret is not looked at
is_authenticated_no_secret == handle # "" /\ api_key # ""

is_authenticated == handle # "" /\ api_key # "" /\ api_secret # ""

api_auth_params(rand) ==
    [apiKey |-> api_key, time |-> ToString(now), rand |-> rand]

\* the parameters the commands pass as int (contest.standings); all others are str
IntParams == {"contestId", "from", "count"}

\* every parameter name in use, in ascending lexicographic order
KeyOrder == <<"apiKey", "apiSig", "contestId", "count", "from", "handles", "rand", "time">>

\* the keys in the order the dict holds them, unsorted
sorted_keys_insertion(params) == SelectSeq(sgOrder, LAMBDA k : k \in DOMAIN params)

sorted_keys(params) == SelectSeq(KeyOrder, LAMBDA k : k \in DOMAIN params)

\* the f-string conversion of a value
format_value(k, v) == IF k \in IntParams THEN ToString(v) ELSE v

\* the characters of a formatted value, as far as rstrip('&') can tell them apart
Chars(v) ==
    CASE v = "" -> << >>
      [] v = "al&" -> <<"al", "&">>
      [] OTHER -> <<v>>

RECURSIVE PairTokens(_, _)
PairTokens(keys, params) ==
    IF keys = << >> THEN << >>
    ELSE <<Head(keys), "=">> \o Chars(format_value(Head(keys), params[Head(keys)]))
             \o <<"&">> \o PairTokens(Tail(keys), params)

RECURSIVE RStripAmp(_)
RStripAmp(tokens) ==
    IF tokens # << >> /\ tokens[Len(tokens)] = "&"
    THEN RStripAmp(SubSeq(tokens, 1, Len(tokens) - 1))
    ELSE tokens

RECURSIVE Join(_)
Join(tokens) == IF tokens = << >> THEN "" ELSE Head(tokens) \o Join(Tail(tokens))

\* hashlib.sha512(...).hexdigest(): one digest per input string
Sha512Hex(s) == "sha512(" \o s \o ")"

signature_string(method, params) ==
    Join(RStripAmp(<<method, "?">> \o PairTokens(sorted_keys(params), params)))
        \o "#" \o api_secret

sign_request(method, params) ==
    Update(params, [apiSig |-> "123456" \o Sha512Hex(signature_string(method, params))])

\* hash(v) of a parameter value, up to renaming: CPython's hash of an int n is
\* n itself for |n| < 2^61 - 1, save that hash(-1) is -2; str hashes are taken
\* as distinct for distinct strings
py_hash(k, v) == IF k \in IntParams THEN (IF v = -1 THEN -2 ELSE v) ELSE v

\* hash(frozenset(params.items())): a function of the set of the items' hashes
Items(params) == {<<k, py_hash(k, params[k])>> : k \in DOMAIN params}
cache_key(method, params) == <<method, Items(params)>>

\* an entry expires as soon as its age reaches the TTL
get_from_cache_strict(key) ==
    IF key \notin DOMAIN cache THEN NoneVal
    ELSE IF now - cache[key].storedAt >= CACHE_TTL THEN NoneVal
    ELSE cache[key].payload

get_from_cache(key) ==
    IF key \notin DOMAIN cache THEN NoneVal
    ELSE IF now - cache[key].storedAt > CACHE_TTL THEN NoneVal
    ELSE cache[key].payload

\* the cache after _save_to_cache; ioOk = FALSE is the IOError branch
save_to_cache(key, data, ioOk) ==
    IF ioOk
    THEN [k \in DOMAIN cache \cup {key} |->
            IF k = key THEN [payload |-> data, storedAt |-> now] ELSE cache[k]]
    ELSE cache

\* bool(cached_data)
Truthy(data) == data # NoneVal

\* user.info requests are signed like all others
DispatchParams_signs_all(method, params, rand) ==
    IF is_authenticated
    THEN sign_request(method, Update(params, api_auth_params(rand)))
    ELSE params

\* call_api lines 102-107: the params the request is sent with
DispatchParams(method, params, rand) ==
    IF is_authenticated /\ method # "user.info"
    THEN sign_request(method, Update(params, api_auth_params(rand)))
    ELSE params

\* a response with any status passes for a success
status_ok_any(data) == data.status # "<None>"

\* data.get("status") == "OK"
status_ok(data) == data.status = "OK"

\* data.get('comment', 'Unknown error')
comment_of(data) == IF data.comment = Absent THEN "Unknown error" ELSE data.comment

\* delay of _retry_with_backoff's attempt a
Delay(a) == base_delay * (2 ^ a)

(***************************************************************************)
(* call_api, from its entry to its first session.get (lines 93-107), as    *)
(* entered with the retry frames st below it.  A cache hit returns at      *)
(* once: to the caller when st is empty, and otherwise to                  *)
(* _retry_with_backoff, which returns it to the call_api below, whose      *)
(* except clause drops it, so that the outermost call_api returns None.    *)
(***************************************************************************)
\* the request is dispatched without consulting the cache
EnterCall_no_lookup(method, params, st, rand) ==
    /\ pc' = "request"
    /\ result' = Pending
    /\ stack' = st
    /\ curKey' = cache_key(method, params)
    /\ curParams' = DispatchParams(method, params, rand)

EnterCall(method, params, st, rand) ==
    LET key == cache_key(method, params)
        cached == get_from_cache(key)
    IN  IF Truthy(cached)
        THEN /\ pc' = "done"
             /\ result' = IF st = << >> THEN Returned(cached) ELSE Returned(NoneVal)
             /\ stack' = << >>
             /\ curKey' = key
             /\ curParams' = params
        ELSE /\ pc' = "request"
             /\ result' = Pending
             /\ stack' = st
             /\ curKey' = key
             /\ curParams' = DispatchParams(method, params, rand)

\* the retry frames left after an exception reaches the innermost
\* _retry_with_backoff: a frame on its last attempt re-raises
RECURSIVE Unwind(_)
Unwind(st) ==
    IF st = << >> THEN << >>
    ELSE IF st[Len(st)] = max_retries - 1 THEN Unwind(SubSeq(st, 1, Len(st) - 1))
    ELSE st

\* an exception leaves the innermost call_api
RaiseFrom(msg, rand) ==
    LET st == Unwind(stack) IN
    IF st = << >>
    THEN /\ pc' = "done"
         /\ result' = Raised(msg)
         /\ stack' = << >>
         /\ UNCHANGED <<curKey, curParams, delays>>
    ELSE LET a == st[Len(st)] + 1 IN
         /\ Len(delays) < MaxSleeps
         /\ delays' = Append(delays, Delay(a))
         /\ EnterCall(callMethod, curParams, [st EXCEPT ![Len(st)] = a], rand)

(***************************************************************************)
(* Actions of the API client                                               *)
(***************************************************************************)
\* a command calls cf_session.call_api(method, params)
CallApi(method, params, rand) ==
    /\ pc \in {"idle", "done"}
    /\ calls < MaxCalls
    /\ calls' = calls + 1
    /\ callMethod' = method
    /\ callParams' = params
    /\ outcomes' = << >>
    /\ delays' = << >>
    /\ wrote' = {}
    /\ EnterCall(method, params, << >>, rand)
    /\ UNCHANGED <<handle, api_key, api_secret, cache, now, webVars, extVars>>

\* session.get returns and response.json() is data (lines 110-118): an "OK"
\* status saves and returns the data, any other raises Exception("API Error: ...")
Respond(data, ioOk, rand) ==
    /\ pc = "request"
    /\ outcomes' = Append(outcomes, data.status)
    /\ IF status_ok(data)
       THEN /\ cache' = save_to_cache(curKey, data, ioOk)
            /\ wrote' = IF ioOk THEN wrote \cup {curKey} ELSE wrote
            /\ pc' = "done"
            /\ result' = IF stack = << >> THEN Returned(data) ELSE Returned(NoneVal)
            /\ stack' = << >>
            /\ UNCHANGED <<curParams, curKey, delays>>
       ELSE /\ RaiseFrom("API Error: " \o comment_of(data), rand)
            /\ UNCHANGED <<cache, wrote>>
    /\ UNCHANGED <<handle, api_key, api_secret, now, callMethod, callParams, calls,
                   webVars, extVars>>

\* session.get or raise_for_status raises requests.RequestException:
\* _retry_with_backoff(lambda: self.call_api(method, params)) starts
RequestTransport(rand) ==
    /\ pc = "request"
    /\ Len(delays) < MaxSleeps
    /\ outcomes' = Append(outcomes, "transport")
    /\ delays' = Append(delays, Delay(0))
    /\ EnterCall(callMethod, curParams, Append(stack, 0), rand)
    /\ UNCHANGED <<handle, api_key, api_secret, cache, now, callMethod, callParams,
                   wrote, calls, webVars, extVars>>

\* time passes
Tick(d) ==
    /\ now + d <= MaxTime
    /\ now' = now + d
    /\ UNCHANGED <<handle, api_key, api_secret, cache, pc, callMethod, callParams,
                   curParams, curKey, stack, result, outcomes, delays, wrote, calls,
                   webVars, extVars>>

(***************************************************************************)
(* Web session and the status command                                      *)
(***************************************************************************)
max_attempts == 10
poll_sleep == 2

Tokens == {"tok1"}
RootPages == {"raise", "notoken"} \cup Tokens    \* GET CF_BASE_URL
LoginPosts == {"raise", "invalid", "ok"}          \* POST enter
StatusArgs == {"none", "submission", "contest"}
ContestPages == {"raise", "not_registered", "empty", "table"}

\* the keys a data/submitSource answer may carry
Fields == {"verdict", "timeConsumedMillis", "memoryConsumedBytes",
           "passedTestCount", "testCount", "testset"}
Verdicts == {"", "TESTING", "OK", "WRONG_ANSWER"}
PyNone == "None"

\* a JSON object: the keys it has and their values (unused for a missing key)
Datas ==
    {[keys |-> K, verdict |-> v, timeConsumedMillis |-> 15,
      memoryConsumedBytes |-> 2048, passedTestCount |-> 3, testCount |-> 5] :
        K \in SUBSET Fields, v \in Verdicts}
NoData == [keys |-> {}, verdict |-> "", timeConsumedMillis |-> 15,
           memoryConsumedBytes |-> 2048, passedTestCount |-> 3, testCount |-> 5]

\* what session.get gives the polling loop: it raises, or a response with a
\* status code whose body is a JSON object or is not JSON
Responses ==
    {[kind |-> "raise", status_code |-> 0, data |-> NoData],
     [kind |-> "badjson", status_code |-> 200, data |-> NoData],
     [kind |-> "json", status_code |-> 500, data |-> NoData]}
    \cup {[kind |-> "json", status_code |-> 200, data |-> d] :
            d \in {x \in Datas : "verdict" \in x.keys \/ x.verdict = ""}}
NoResponse == [kind |-> "none", status_code |-> 0, data |-> NoData]

Report(state) == [state |-> state, verdict |-> "", time |-> "", memory |-> "", tests |-> ""]
Nothing == Report("<nothing>")

\* CFSession.web_login: the session's csrf_token and logged_in afterwards,
\* and the value returned
LoginPost(token) == [url |-> "enter", csrf_token |-> token, logged_in |-> logged_in]

\* the failure phrase in the answer to the login POST is not looked for
web_login_phrase_ignored(root, post) ==
    IF handle = "" \/ root \notin Tokens
    THEN [ok |-> FALSE, csrf_token |-> csrf_token, logged_in |-> logged_in,
          posts |-> << >>]
    ELSE IF post = "raise"
    THEN [ok |-> FALSE, csrf_token |-> root, logged_in |-> logged_in,
          posts |-> <<LoginPost(root)>>]
    ELSE [ok |-> TRUE, csrf_token |-> root, logged_in |-> TRUE,
          posts |-> <<LoginPost(root)>>]

\* the token scraped from the site root is not kept in the session
web_login_token_unset(root, post) ==
    IF handle = "" \/ root \notin Tokens
    THEN [ok |-> FALSE, csrf_token |-> csrf_token, logged_in |-> logged_in,
          posts |-> << >>]
    ELSE IF post # "ok"
    THEN [ok |-> FALSE, csrf_token |-> csrf_token, logged_in |-> logged_in,
          posts |-> <<LoginPost(root)>>]
    ELSE [ok |-> TRUE, csrf_token |-> csrf_token, logged_in |-> TRUE,
          posts |-> <<LoginPost(root)>>]

web_login(root, post) ==
    IF handle = "" \/ root \notin Tokens
    THEN [ok |-> FALSE, csrf_token |-> csrf_token, logged_in |-> logged_in,
          posts |-> << >>]
    ELSE IF post # "ok"
    THEN [ok |-> FALSE, csrf_token |-> root, logged_in |-> logged_in,
          posts |-> <<LoginPost(root)>>]
    ELSE [ok |-> TRUE, csrf_token |-> root, logged_in |-> TRUE,
          posts |-> <<LoginPost(root)>>]

NoLogin == [ran |-> FALSE, root |-> "", post |-> "", ok |-> FALSE]
\* the commands' "if not cf_session.logged_in: ... web_login()"
ensure_login_skipped(root, post) ==
    [ok |-> TRUE, csrf_token |-> csrf_token, logged_in |-> logged_in, posts |-> << >>]

ensure_login(root, post) ==
    IF logged_in
    THEN [ok |-> TRUE, csrf_token |-> csrf_token, logged_in |-> TRUE, posts |-> << >>]
    ELSE web_login(root, post)

\* data.get("verdict")
verdict_of(data) == IF "verdict" \in data.keys THEN data.verdict ELSE PyNone

\* verdict in ["TESTING", ""]
in_queue(verdict) == verdict \in {"TESTING", ""}

\* lines 601-611: the lines printed for a judged submission
Verdict_report(data) ==
    [state |-> "TERMINAL",
     verdict |-> verdict_of(data),
     time |-> IF "timeConsumedMillis" \in data.keys
              THEN ToString(data.timeConsumedMillis) ELSE "N/A",
     memory |-> ToString(data.memoryConsumedBytes \div 1024),
     tests |-> IF "testset" \in data.keys /\ "testCount" \in data.keys
               THEN ToString(IF "passedTestCount" \in data.keys
                             THEN data.passedTestCount ELSE 0)
                    \o "/" \o ToString(data.testCount)
               ELSE ""]

\* a non-200 answer ends the loop like an exception does
Classify_no_status_check(resp) ==
    IF resp.kind = "raise" THEN "EXCEPTION"
    ELSE IF resp.kind = "badjson" THEN "EXCEPTION"
    ELSE IF resp.status_code # 200 THEN "<nothing>"
    ELSE IF in_queue(verdict_of(resp.data)) THEN "QUEUED"
    ELSE IF "memoryConsumedBytes" \notin resp.data.keys THEN "EXCEPTION"
    ELSE "TERMINAL"

\* one iteration of the polling loop (lines 581-613): how it ends.  The
\* memory line divides data.get("memoryConsumedBytes", "N/A") by 1024, a
\* TypeError for the default, which the command's except clause reports
Classify(resp) ==
    IF resp.kind = "raise" THEN "EXCEPTION"
    ELSE IF resp.status_code # 200 THEN "HTTP_ERROR"
    ELSE IF resp.kind = "badjson" THEN "EXCEPTION"
    ELSE IF in_queue(verdict_of(resp.data)) THEN "QUEUED"
    ELSE IF "memoryConsumedBytes" \notin resp.data.keys THEN "EXCEPTION"
    ELSE "TERMINAL"

\* the loop runs one iteration more than max_attempts
LoopOver_off_by_one(a) == a > max_attempts

\* range(max_attempts) is used up after iteration a - 1
LoopOver(a) == a >= max_attempts

\* the answer is a JSON object whose verdict is empty or "TESTING"
QueuedAnswer(resp) ==
    /\ resp.kind = "json"
    /\ resp.status_code = 200
    /\ "verdict" \in resp.data.keys
    /\ resp.data.verdict \in {"", "TESTING"}

\* status(submission_id, contest_id) up to the polling loop (lines 559-576)
StatusStart(args, root, post) ==
    /\ spc = "start"
    /\ LET login == ensure_login(root, post)
       IN  IF args = "none"
           THEN /\ spc' = "end"
                /\ printed' = Report("USAGE")
                /\ UNCHANGED <<csrf_token, logged_in, posts, loginRun>>
           ELSE /\ csrf_token' = login.csrf_token
                /\ logged_in' = login.logged_in
                /\ posts' = posts \o login.posts
                /\ loginRun' = IF logged_in THEN loginRun
                               ELSE [ran |-> TRUE, root |-> root, post |-> post,
                                     ok |-> login.ok]
                /\ IF ~login.ok
                   THEN spc' = "end" /\ printed' = Report("LOGIN_FAILED")
                   ELSE /\ spc' = IF args = "submission" THEN "poll" ELSE "contest"
                        /\ printed' = printed
    /\ UNCHANGED <<attempt, fetches, lastResp, queuedOnly, sleeps, apiVars, extVars>>

\* one iteration of the polling loop, with the loop's else clause when the
\* iteration was the last one
PollStep(resp) ==
    /\ spc = "poll"
    /\ fetches' = fetches + 1
    /\ lastResp' = resp
    /\ LET how == Classify(resp) IN
       /\ queuedOnly' = (queuedOnly /\ QueuedAnswer(resp))
       /\ IF how = "QUEUED"
          THEN /\ sleeps' = Append(sleeps, poll_sleep)
               /\ attempt' = attempt + 1
               /\ IF LoopOver(attempt + 1)
                  THEN spc' = "end" /\ printed' = Report("EXHAUSTED")
                  ELSE spc' = "poll" /\ printed' = printed
          ELSE /\ spc' = "end"
               /\ printed' = IF how = "TERMINAL" THEN Verdict_report(resp.data)
                             ELSE Report(how)
               /\ UNCHANGED <<sleeps, attempt>>
    /\ UNCHANGED <<csrf_token, logged_in, posts, loginRun, apiVars, extVars>>

\* the submissions table of a contest (lines 617-641)
ContestStatus(page) ==
    /\ spc = "contest"
    /\ spc' = "end"
    /\ printed' = Report(CASE page = "raise" -> "EXCEPTION"
                           [] page = "not_registered" -> "NOT_REGISTERED"
                           [] page = "empty" -> "NO_SUBMISSIONS"
                           [] OTHER -> "TABLE")
    /\ UNCHANGED <<csrf_token, logged_in, posts, loginRun, attempt, fetches, lastResp,
                   queuedOnly, sleeps, apiVars, extVars>>

(***************************************************************************)
(* sign_request and api_auth_params on their own                           *)
(***************************************************************************)
MaxSigns == 2       \* sign_request calls of one behaviour
rand_len == 6
\* a sample of string.ascii_lowercase + string.digits
RandChars == {"a", "7"}

SignMethods == {"user.info", "contest.standings"}
SignParams ==
    {EmptyParams, [handles |-> "alice"], [handles |-> "al&"], [handles |-> ""],
     [contestId |-> 1, from |-> 1, count |-> 1]}
\* the orders in which the keys of a dict can have been inserted
Orders(params) ==
    {o \in [1..Cardinality(DOMAIN params) -> DOMAIN params] :
        \A i, j \in DOMAIN o : i # j => o[i] # o[j]}
NoAuth == [raised |-> FALSE, called |-> FALSE]

\* the caller builds a params dict
Build(method, params, order) ==
    /\ order \in Orders(params)
    /\ sgMethod' = method
    /\ sgParams' = params
    /\ sgOrder' = order
    /\ UNCHANGED <<sgSigs, authRand, authRes, retryVars, apiVars, webVars, submitVars,
                   loginVars>>

\* sign_request(sgMethod, sgParams): the dict is signed in place
Sign ==
    /\ sgMethod # ""
    /\ Cardinality(sgSigs) < MaxSigns
    /\ sgSigs' = sgSigs \cup
          {[method |-> sgMethod, params |-> sgParams, order |-> sgOrder,
            secret |-> api_secret,
            hashed |-> signature_string(sgMethod, sgParams),
            sig |-> sign_request(sgMethod, sgParams)["apiSig"]]}
    /\ sgParams' = sign_request(sgMethod, sgParams)
    /\ sgOrder' = IF "apiSig" \in DOMAIN sgParams THEN sgOrder
                  ELSE Append(sgOrder, "apiSig")
    /\ UNCHANGED <<sgMethod, authRand, authRes, retryVars, apiVars, webVars, submitVars,
                   loginVars>>

\* the call never raises
api_auth_result_unchecked(chars) ==
    [raised |-> FALSE, called |-> TRUE, params |-> api_auth_params(Join(chars))]

\* api_auth_params with its guard: ValueError, or the dict it returns
api_auth_result(chars) ==
    IF ~is_authenticated
    THEN [raised |-> TRUE, called |-> TRUE,
          error |-> "Not authenticated. Please run 'cfcli login' first."]
    ELSE [raised |-> FALSE, called |-> TRUE, params |-> api_auth_params(Join(chars))]

ApiAuth(chars) ==
    /\ authRand' = chars
    /\ authRes' = api_auth_result(chars)
    /\ UNCHANGED <<sgMethod, sgParams, sgOrder, sgSigs, retryVars, apiVars, webVars, submitVars,
                   loginVars>>

SignInit ==
    /\ sgMethod = ""
    /\ sgParams = EmptyParams
    /\ sgOrder = << >>
    /\ sgSigs = {}
    /\ authRand = << >>
    /\ authRes = NoAuth

(***************************************************************************)
(* _retry_with_backoff on its own, func being any callable                 *)
(***************************************************************************)
MaxRetryArg == 3    \* largest max_retries argument tried
RetryArgs == 0..MaxRetryArg
BaseDelays == {1, 2}
FuncValues == {"v1", "v2"}
\* what func can raise: two Exceptions, and one BaseException that
\* "except Exception" does not catch
FuncErrors == {"IOError", "ValueError", "KeyboardInterrupt"}
Caught(e) == e # "KeyboardInterrupt"
FuncOk(v) == [ok |-> TRUE, value |-> v, error |-> ""]
FuncFailed(e) == [ok |-> FALSE, value |-> PyNone, error |-> e]
NoRun == [kind |-> "pending", value |-> PyNone, error |-> ""]

\* the delay grows by base_delay with every attempt
backoff_delay_linear(base, a) == base * (a + 1)

\* base_delay * (2 ** attempt)
backoff_delay(base, a) == base * (2 ^ a)

\* _retry_with_backoff(func, m, b) up to its first func(); range(0) is empty
\* and the function then falls off its end, returning None
RetryCall(m, b) ==
    /\ rtPc = "idle"
    /\ rtMax' = m
    /\ rtBase' = b
    /\ rtOutcomes' = << >>
    /\ IF m = 0
       THEN /\ rtPc' = "returned"
            /\ rtResult' = [kind |-> "return", value |-> PyNone, error |-> ""]
            /\ UNCHANGED <<rtAttempt, rtSleeps>>
       ELSE /\ rtPc' = "calling"
            /\ rtAttempt' = 0
            /\ rtSleeps' = <<backoff_delay(b, 0)>>
            /\ rtResult' = NoRun
    /\ UNCHANGED <<signVars, apiVars, webVars, submitVars,
                   loginVars>>

\* func() returns v: return func()
FuncReturns(v) ==
    /\ rtPc = "calling"
    /\ rtOutcomes' = Append(rtOutcomes, FuncOk(v))
    /\ rtPc' = "returned"
    /\ rtResult' = [kind |-> "return", value |-> v, error |-> ""]
    /\ UNCHANGED <<rtMax, rtBase, rtAttempt, rtSleeps, signVars, apiVars, webVars, submitVars,
                   loginVars>>

\* func() raises e: re-raised on the last attempt (or when not an Exception),
\* and otherwise the loop goes on to the next sleep and func()
FuncRaises(e) ==
    /\ rtPc = "calling"
    /\ rtOutcomes' = Append(rtOutcomes, FuncFailed(e))
    /\ IF ~Caught(e) \/ rtAttempt = rtMax - 1
       THEN /\ rtPc' = "raised"
            /\ rtResult' = [kind |-> "raise", value |-> PyNone, error |-> e]
            /\ UNCHANGED <<rtAttempt, rtSleeps>>
       ELSE /\ rtAttempt' = rtAttempt + 1
            /\ rtSleeps' = Append(rtSleeps, backoff_delay(rtBase, rtAttempt + 1))
            /\ UNCHANGED <<rtPc, rtResult>>
    /\ UNCHANGED <<rtMax, rtBase, signVars, apiVars, webVars, submitVars,
                   loginVars>>

RetryInit ==
    /\ rtMax = max_retries
    /\ rtBase = base_delay
    /\ rtPc = "idle"
    /\ rtAttempt = 0
    /\ rtSleeps = << >>
    /\ rtOutcomes = << >>
    /\ rtResult = NoRun

(***************************************************************************)
(* The submit command                                                      *)
(***************************************************************************)
SubmitFiles == {"missing", "unreadable", "ok"}
SubmitPages == {"raise", "notoken"} \cup Tokens    \* GET contest/<id>/submit
\* what the solution POST gives: it raises, or a response whose text may hold
\* the duplicate-code phrase and a submissionId, and whose final URL may
\* contain contest/<id>/my
SubmitResponses ==
    {[kind |-> "raise", dup |-> FALSE, onMy |-> FALSE, hasId |-> FALSE]}
    \cup {[kind |-> "response", dup |-> d, onMy |-> m, hasId |-> i] :
            d \in BOOLEAN, m \in BOOLEAN, i \in BOOLEAN}
NoSubmitResponse == [kind |-> "none", dup |-> FALSE, onMy |-> FALSE, hasId |-> FALSE]
Outcome(state) == [state |-> state, submission_id |-> FALSE]
NoOutcome == Outcome("<nothing>")

\* the final URL is looked at before the duplicate-code phrase
submit_outcome_url_first(resp) ==
    IF resp.kind = "raise" THEN Outcome("SUBMIT_ERROR")
    ELSE IF resp.onMy THEN [state |-> "SUBMITTED", submission_id |-> resp.hasId]
    ELSE IF resp.dup THEN Outcome("DUPLICATE_WARNING")
    ELSE Outcome("SUBMISSION_FAILED")

\* lines 528-551: what submit prints after the solution POST
submit_outcome(resp) ==
    IF resp.kind = "raise" THEN Outcome("SUBMIT_ERROR")
    ELSE IF resp.dup THEN Outcome("DUPLICATE_WARNING")
    ELSE IF resp.onMy THEN [state |-> "SUBMITTED", submission_id |-> resp.hasId]
    ELSE Outcome("SUBMISSION_FAILED")

\* submit(filename) up to the solution POST (lines 469-526): the file check,
\* the login, the read of the file, and the token fetched from the submit
\* page when the session has none
SubmitStart(file, root, post, page) ==
    /\ sbPc = "start"
    /\ UNCHANGED sbResp
    /\ sbFetched' = (/\ file = "ok"
                     /\ ensure_login(root, post).ok
                     /\ ensure_login(root, post).csrf_token = "")
    /\ IF file = "missing"
       THEN /\ sbPc' = "end"
            /\ sbOutcome' = Outcome("FILE_NOT_FOUND")
            /\ UNCHANGED <<csrf_token, logged_in, posts, loginRun>>
       ELSE LET login == ensure_login(root, post) IN
            /\ logged_in' = login.logged_in
            /\ posts' = posts \o login.posts
            /\ loginRun' = IF logged_in THEN loginRun
                           ELSE [ran |-> TRUE, root |-> root, post |-> post,
                                 ok |-> login.ok]
            /\ IF ~login.ok
               THEN /\ sbPc' = "end"
                    /\ sbOutcome' = Outcome("LOGIN_FAILED")
                    /\ csrf_token' = login.csrf_token
               ELSE IF file = "unreadable"
               THEN /\ sbPc' = "end"
                    /\ sbOutcome' = Outcome("READ_ERROR")
                    /\ csrf_token' = login.csrf_token
               ELSE IF login.csrf_token # ""
               THEN /\ sbPc' = "post"
                    /\ sbOutcome' = sbOutcome
                    /\ csrf_token' = login.csrf_token
               ELSE IF page \in Tokens
               THEN /\ sbPc' = "post"
                    /\ sbOutcome' = sbOutcome
                    /\ csrf_token' = page
               ELSE /\ sbPc' = "end"
                    /\ sbOutcome' = Outcome(IF page = "raise" THEN "UNCAUGHT"
                                            ELSE "NO_TOKEN")
                    /\ csrf_token' = login.csrf_token
    /\ UNCHANGED <<spc, attempt, fetches, lastResp, queuedOnly, sleeps, printed,
                   apiVars, signVars, retryVars, loginVars>>

\* session.post(submit_url, data=submit_data) and the report of its answer
SubmitPost(resp) ==
    /\ sbPc = "post"
    /\ posts' = Append(posts, [url |-> "submit", csrf_token |-> csrf_token,
                               logged_in |-> logged_in])
    /\ sbResp' = resp
    /\ sbOutcome' = submit_outcome(resp)
    /\ sbPc' = "end"
    /\ UNCHANGED sbFetched
    /\ UNCHANGED <<csrf_token, logged_in, loginRun, spc, attempt, fetches, lastResp,
                   queuedOnly, sleeps, printed, apiVars, signVars, retryVars,
                   loginVars>>

SubmitInit ==
    /\ sbPc = "start"
    /\ sbResp = NoSubmitResponse
    /\ sbOutcome = NoOutcome
    /\ sbFetched = FALSE

(***************************************************************************)
(* The login command, run twice on the same handle, cache and judge        *)
(***************************************************************************)
\* what a session.get of login's call can meet
JudgeSteps ==
    {[kind |-> "transport", data |-> NoneVal]}
    \cup {[kind |-> "response", data |-> d] :
            d \in {[status |-> "OK", body |-> "r1", comment |-> Absent],
                   [status |-> "FAILED", body |-> "", comment |-> "handles: not found"]}}
\* one step for each session.get a call can make
Scripts == [1..(MaxSleeps + 1) -> JudgeSteps]

\* "response and response.get('status') == 'OK'", False after an exception
login_result(res) == res.kind = "return" /\ Truthy(res.data) /\ status_ok(res.data)

\* the requests of the current run are all on record
Synced == Len(lgReqs[lgRun]) = Len(outcomes) + (IF pc = "request" THEN 1 ELSE 0)
\* the previous run, if any, has returned
RunOver == calls = lgRun /\ Len(lgResults) = lgRun /\ pc \in {"idle", "done"}

\* an earlier run left a user.info answer in CACHE_DIR
LoginWarm(h, data) ==
    /\ lgRun = 0
    /\ cache = << >>
    /\ cache' = save_to_cache(cache_key("user.info", [handles |-> h]), data, TRUE)
    /\ UNCHANGED <<handle, api_key, api_secret, now, pc, callMethod, callParams,
                   curParams, curKey, stack, result, outcomes, delays, wrote, calls,
                   webVars, signVars, retryVars, submitVars, loginVars>>

\* login(h, k, s), lines 229-231, of the first run
LoginFirst(h, k, s, script) ==
    /\ lgRun = 0
    /\ RunOver
    /\ handle' = h /\ api_key' = k /\ api_secret' = s
    /\ lgRun' = 1
    /\ lgHandle' = h
    /\ lgKeys' = <<<<k, s>>>>
    /\ lgScript' = script
    /\ lgCache0' = cache
    /\ lgReqs' = << << >> >>
    /\ UNCHANGED <<cache, now, pc, callMethod, callParams, curParams, curKey, stack,
                   result, outcomes, delays, wrote, calls, lgResults,
                   webVars, signVars, retryVars, submitVars>>

\* login(lgHandle, k, s) of the second run, which finds the cache the first
\* run found
LoginAgain(k, s) ==
    /\ lgRun = 1
    /\ RunOver
    /\ handle' = lgHandle /\ api_key' = k /\ api_secret' = s
    /\ cache' = lgCache0
    /\ lgRun' = 2
    /\ lgKeys' = Append(lgKeys, <<k, s>>)
    /\ lgReqs' = Append(lgReqs, << >>)
    /\ UNCHANGED <<now, pc, callMethod, callParams, curParams, curKey, stack,
                   result, outcomes, delays, wrote, calls, lgHandle, lgScript,
                   lgCache0, lgResults, webVars, signVars, retryVars, submitVars>>

\* cf_session.call_api("user.info", {"handles": handle}), line 235
LoginCall(rand) ==
    /\ lgRun > 0
    /\ calls = lgRun - 1
    /\ CallApi("user.info", [handles |-> handle], rand)

\* session.get(url, params=params), line 110: the request goes out
SessionGet ==
    /\ lgRun > 0
    /\ calls = lgRun
    /\ ~Synced
    /\ lgReqs' = [lgReqs EXCEPT ![lgRun] =
                     Append(@, [method |-> callMethod, params |-> curParams])]
    /\ UNCHANGED <<lgRun, lgHandle, lgKeys, lgScript, lgCache0, lgResults,
                   apiVars, webVars, signVars, retryVars, submitVars>>

\* the judge's next step is a response
JudgeResponds(rand) ==
    /\ lgRun > 0 /\ calls = lgRun /\ pc = "request" /\ Synced
    /\ lgScript[Len(outcomes) + 1].kind = "response"
    /\ Respond(lgScript[Len(outcomes) + 1].data, TRUE, rand)

\* the judge's next step is a transport failure
JudgeUnreachable(rand) ==
    /\ lgRun > 0 /\ calls = lgRun /\ pc = "request" /\ Synced
    /\ lgScript[Len(outcomes) + 1].kind = "transport"
    /\ RequestTransport(rand)

\* lines 236-244: login returns
LoginReturn ==
    /\ lgRun > 0
    /\ calls = lgRun /\ pc = "done" /\ Synced
    /\ Len(lgResults) = lgRun - 1
    /\ lgResults' = Append(lgResults, login_result(result))
    /\ UNCHANGED <<lgRun, lgHandle, lgKeys, lgScript, lgCache0, lgReqs,
                   apiVars, webVars, signVars, retryVars, submitVars>>

LoginInit ==
    /\ lgRun = 0
    /\ lgHandle = ""
    /\ lgKeys = << >>
    /\ lgScript = << >>
    /\ lgCache0 = << >>
    /\ lgReqs = << >>
    /\ lgResults = << >>

ApiInit ==
    /\ handle \in Handles
    /\ api_key \in ApiKeys
    /\ api_secret \in ApiSecrets
    /\ cache = << >>
    /\ now = 0
    /\ pc = "idle"
    /\ callMethod = ""
    /\ callParams = EmptyParams
    /\ curParams = EmptyParams
    /\ curKey = NoKey
    /\ stack = << >>
    /\ result = Pending
    /\ outcomes = << >>
    /\ delays = << >>
    /\ wrote = {}
    /\ calls = 0

WebInit ==
    /\ csrf_token = ""
    /\ logged_in = FALSE
    /\ spc = "start"
    /\ attempt = 0
    /\ fetches = 0
    /\ lastResp = NoResponse
    /\ queuedOnly = TRUE
    /\ sleeps = << >>
    /\ printed = Nothing
    /\ posts = << >>
    /\ loginRun = NoLogin

Init == ApiInit /\ WebInit /\ SignInit /\ RetryInit /\ SubmitInit /\ LoginInit

Next ==
    \/ \E c \in Calls, r \in Rands : CallApi(c[1], c[2], r)
    \/ \E data \in OkResponses \cup FailedResponses, ioOk \in BOOLEAN, r \in Rands :
          Respond(data, ioOk, r)
    \/ \E r \in Rands : RequestTransport(r)
    \/ \E d \in TickSteps : Tick(d)

Spec == Init /\ [][Next]_vars

StatusNext ==
    \/ \E a \in StatusArgs, root \in RootPages, post \in LoginPosts :
          StatusStart(a, root, post)
    \/ \E resp \in Responses : PollStep(resp)
    \/ \E page \in ContestPages : ContestStatus(page)

SpecStatus == Init /\ [][StatusNext]_vars

\* call_api as generate uses it
KeyNext ==
    \/ \E c \in KeyCalls, r \in Rands : CallApi(c[1], c[2], r)
    \/ \E ioOk \in BOOLEAN, r \in Rands :
          pc = "request" /\ Respond(StandingsOf(curParams["contestId"]), ioOk, r)
    \/ \E data \in FailedResponses, r \in Rands : Respond(data, TRUE, r)
    \/ \E r \in Rands : RequestTransport(r)
    \/ \E d \in TickSteps : Tick(d)

SpecKey == Init /\ [][KeyNext]_vars

RetryNext ==
    \/ \E m \in RetryArgs, b \in BaseDelays : RetryCall(m, b)
    \/ \E v \in FuncValues : FuncReturns(v)
    \/ \E e \in FuncErrors : FuncRaises(e)

SpecRetry == Init /\ [][RetryNext]_vars

SubmitNext ==
    \/ \E file \in SubmitFiles, root \in RootPages, post \in LoginPosts,
          page \in SubmitPages : SubmitStart(file, root, post, page)
    \/ \E resp \in SubmitResponses : SubmitPost(resp)

SpecSubmit == Init /\ [][SubmitNext]_vars

LoginNext ==
    \/ \E h \in Handles, data \in OkResponses : LoginWarm(h, data)
    \/ \E h \in Handles, k \in ApiKeys, s \in ApiSecrets, script \in Scripts :
          LoginFirst(h, k, s, script)
    \/ \E k \in ApiKeys, s \in ApiSecrets : LoginAgain(k, s)
    \/ \E r \in Rands : LoginCall(r)
    \/ SessionGet
    \/ \E r \in Rands : JudgeResponds(r)
    \/ \E r \in Rands : JudgeUnreachable(r)
    \/ LoginReturn

SpecLogin == Init /\ [][LoginNext]_vars

SignNext ==
    \/ \E m \in SignMethods, p \in SignParams : \E o \in Orders(p) : Build(m, p, o)
    \/ Sign

SpecSign == Init /\ [][SignNext]_vars

AuthNext ==
    \/ \E chars \in [1..rand_len -> RandChars] : ApiAuth(chars)
    \/ \E d \in TickSteps : Tick(d)

SpecAuth == Init /\ [][AuthNext]_vars

(***************************************************************************)
(* Properties of the API client (checked under Spec)                       *)
(***************************************************************************)
InCall == pc \in {"request", "done"}
AllTransport == \A i \in 1..Len(outcomes) : outcomes[i] = "transport"
CallKey == cache_key(callMethod, callParams)

\* C1: when every request of a call fails in transport, call_api makes exactly
\* 3 retry attempts, sleeping 1, 2, 4 seconds before them (base_delay * 2^i
\* before retry i), then raises to its caller and issues no further request.
C1_RetryBoundThenRaise ==
    (InCall /\ outcomes # << >> /\ AllTransport) =>
        /\ Len(delays) <= 3
        /\ \A i \in 1..Len(delays) : delays[i] = 2 ^ (i - 1)
        /\ (Len(outcomes) = 4 => pc = "done" /\ result.kind = "raise")
        /\ (pc = "done" => Len(outcomes) = 4)

\* C2: a call_api that returns normally returns a response whose status is
\* "OK" (from the cache or the network), a retry's response included.
C2_ReturnsOkResponse ==
    (pc = "done" /\ result.kind = "return") => result.data.status = "OK"

\* C3: a response whose status is not "OK" ends the call with an error that
\* carries the server's comment, and no request follows it in that call,
\* also when it answers a request made during a transport retry.
C3_RejectionNeverRetried ==
    \A i \in 1..Len(outcomes) :
        outcomes[i] = "FAILED" =>
            /\ i = Len(outcomes)
            /\ pc = "done"
            /\ result.kind = "raise"

\* C4: a call_api(method, params) made while the cache holds an entry for
\* the same method and params that is younger than the TTL issues no network
\* request and returns the stored response; and the entry a call_api that
\* returned an OK response from the network has written is stored under the
\* key of that method and params.
C4_CacheBeforeNetwork ==
    [][ /\ (calls' = calls + 1 /\ cache_key(callMethod', callParams') \in DOMAIN cache
              /\ now - cache[cache_key(callMethod', callParams')].storedAt < 300)
           => /\ pc' = "done"
              /\ outcomes' = << >>
              /\ result' = Returned(cache[cache_key(callMethod', callParams')].payload)
        /\ (pc = "request" /\ pc' = "done" /\ result'.data.status = "OK" /\ wrote' # {})
           => /\ CallKey \in DOMAIN cache'
              /\ cache'[CallKey] = [payload |-> result'.data, storedAt |-> now]
      ]_vars

C4_Witness ==
    /\ calls = 2
    /\ pc = "done"
    /\ outcomes = << >>
    /\ result.kind = "return"
    /\ result.data.status = "OK"
    /\ now - cache[CallKey].storedAt = 299

\* C5 as stated: an entry stored at T is served while now - T < 300 and is a
\* miss when now - T >= 300, the boundary now - T = 300 included.
C5_TtlStrict ==
    [][ (calls' = calls + 1 /\ cache_key(callMethod', callParams') \in DOMAIN cache)
        => LET e == cache[cache_key(callMethod', callParams')] IN
           IF now - e.storedAt < 300
           THEN pc' = "done" /\ result' = Returned(e.payload)
           ELSE pc' = "request"
      ]_vars

\* C5 amended: an entry stored at T is served while now - T <= 300 and is a
\* miss exactly when now - T > 300.
C5_TtlInclusive ==
    [][ (calls' = calls + 1 /\ cache_key(callMethod', callParams') \in DOMAIN cache)
        => LET e == cache[cache_key(callMethod', callParams')] IN
           IF now - e.storedAt <= 300
           THEN pc' = "done" /\ result' = Returned(e.payload) /\ outcomes' = << >>
           ELSE pc' = "request" /\ result' = Pending
      ]_vars

\* a call made exactly 300 seconds after the entry was stored was served from it
C5_Witness ==
    /\ calls = 2
    /\ pc = "done"
    /\ outcomes = << >>
    /\ CallKey \in DOMAIN cache
    /\ now - cache[CallKey].storedAt = 300
    /\ result = Returned(cache[CallKey].payload)

\* C6: the cache changes only when a network response with status "OK" is
\* handled: every other step (a cache hit, a non-OK response, a transport
\* failure) leaves every entry's payload and stored-at time as they were,
\* and no entry is ever deleted.
C6_CacheWrittenOnlyOnOk ==
    [][ /\ DOMAIN cache \subseteq DOMAIN cache'
        /\ \A k \in DOMAIN cache' :
              (k \notin DOMAIN cache \/ cache'[k] # cache[k])
              => /\ pc = "request"
                 /\ outcomes' = Append(outcomes, "OK")
                 /\ k = curKey
                 /\ cache'[k].payload.status = "OK"
                 /\ cache'[k].storedAt = now
      ]_vars

\* a call that got a non-OK response ended while the cache held an entry
C6_Witness ==
    /\ pc = "done"
    /\ result.kind = "raise"
    /\ cache # << >>
    /\ \E i \in 1..Len(outcomes) : outcomes[i] = "transport"

(***************************************************************************)
(* Properties of the status command (checked under SpecStatus)             *)
(***************************************************************************)
Polled == fetches > 0
GotJson == lastResp.kind = "json" /\ lastResp.status_code = 200
HasVerdict == "verdict" \in lastResp.data.keys
\* the latest answer carries a verdict that is neither empty nor in queue
TerminalAnswer ==
    GotJson /\ HasVerdict /\ lastResp.data.verdict \notin {"", "TESTING"}

\* C7: while every fetch returns an in-queue verdict the poller sleeps after
\* each fetch and goes on; it stops after exactly 10 fetches, reporting
\* EXHAUSTED, and no run ever performs an 11th fetch.
C7_QueuedSourceExhausts ==
    /\ fetches <= 10
    /\ (Polled /\ queuedOnly) =>
          /\ Len(sleeps) = fetches
          /\ (spc = "end" <=> fetches = 10)
          /\ (spc = "end" => printed = Report("EXHAUSTED"))
          /\ (spc # "end" => spc = "poll" /\ printed = Nothing)

C7_Witness ==
    /\ queuedOnly
    /\ fetches = 10
    /\ spc = "end"
    /\ printed.state = "EXHAUSTED"

\* C8: when the first verdict that is not in queue arrives on fetch k, the
\* poller ends there with k fetches and k - 1 sleeps, and reports that verdict
\* with its time, its memory and its test counts.
C8_TerminalAtFirstVerdict ==
    (Polled /\ TerminalAnswer) =>
        LET d == lastResp.data IN
        /\ spc = "end"
        /\ Len(sleeps) = fetches - 1
        /\ printed.state = "TERMINAL"
        /\ printed.verdict = d.verdict
        /\ ("timeConsumedMillis" \in d.keys => printed.time = ToString(d.timeConsumedMillis))
        /\ ("memoryConsumedBytes" \in d.keys =>
               printed.memory = ToString(d.memoryConsumedBytes \div 1024))
        /\ ({"testCount", "passedTestCount"} \subseteq d.keys =>
               printed.tests = ToString(d.passedTestCount) \o "/" \o ToString(d.testCount))

\* C9: TERMINAL is reported only for a verdict that is present, non-empty
\* and not in queue; after a fetch whose verdict is empty, absent or in queue
\* the poller has slept 2 seconds and is still polling (or, after the 10th
\* such fetch, EXHAUSTED).
C9_TerminalOnlyOnVerdict ==
    /\ printed.state = "TERMINAL" => TerminalAnswer
    /\ (Polled /\ GotJson /\ ~TerminalAnswer) =>
          /\ Len(sleeps) = fetches
          /\ sleeps[Len(sleeps)] = 2
          /\ (spc = "poll" \/ printed.state = "EXHAUSTED")

\* C10 as stated: a polling loop that has ended ended TERMINAL or EXHAUSTED.
C10_TwoFinalStates ==
    (Polled /\ spc = "end") => printed.state \in {"TERMINAL", "EXHAUSTED"}

\* C10 amended: a polling loop that has ended reported exactly one of
\* TERMINAL, EXHAUSTED, an HTTP error (after an answer whose status code is
\* not 200, and only then) or an exception (after a fetch that raised or an
\* answer that could not be decoded or reported, and only then); EXHAUSTED is
\* reported exactly after 10 in-queue fetches.
C10_FinalStatesWithErrors ==
    (Polled /\ spc = "end") =>
        /\ printed.state \in {"TERMINAL", "EXHAUSTED", "HTTP_ERROR", "EXCEPTION"}
        /\ (printed.state = "EXHAUSTED" <=> (queuedOnly /\ fetches = 10))
        /\ (printed.state = "HTTP_ERROR" <=>
               (lastResp.kind # "raise" /\ lastResp.status_code # 200))
        /\ (printed.state = "EXCEPTION" =>
               \/ lastResp.kind \in {"raise", "badjson"}
               \/ (GotJson /\ "memoryConsumedBytes" \notin lastResp.data.keys))
        /\ (printed.state = "TERMINAL" => GotJson /\ ~QueuedAnswer(lastResp))

\* a loop that ended on an answer with a status code other than 200
C10_Witness ==
    /\ Polled
    /\ spc = "end"
    /\ fetches = 3
    /\ lastResp.status_code = 500
    /\ printed.state = "HTTP_ERROR"

(***************************************************************************)
(* Further properties of the API client (checked under Spec)               *)
(***************************************************************************)
AuthKeys == {"apiKey", "time", "rand", "apiSig"}

\* C13: the request call_api dispatches carries the signer's apiKey, time,
\* rand and apiSig, next to the caller's params, exactly when handle, api_key
\* and api_secret are all set and the method is not user.info; in every other
\* case it is dispatched with the caller's params and nothing else.
C13_SignedIffAuthenticated ==
    pc = "request" =>
        IF handle # "" /\ api_key # "" /\ api_secret # "" /\ callMethod # "user.info"
        THEN /\ DOMAIN curParams = DOMAIN callParams \cup AuthKeys
             /\ curParams["apiKey"] = api_key
             /\ \A k \in DOMAIN callParams : curParams[k] = callParams[k]
        ELSE curParams = callParams

\* a signed request is in flight, and so is an unsigned one of a session that
\* holds a key but no secret
C13_Witness ==
    /\ pc = "request"
    /\ \/ "apiSig" \in DOMAIN curParams
       \/ (api_key # "" /\ api_secret = "" /\ callMethod = "contest.list")
    /\ now > 0

RECURSIVE JoinPairs(_, _)
JoinPairs(keys, params) ==
    IF keys = << >> THEN ""
    ELSE Head(keys) \o "=" \o format_value(Head(keys), params[Head(keys)])
           \o (IF Len(keys) > 1 THEN "&" ELSE "")
           \o JoinPairs(Tail(keys), params)
Canonical(method, params, secret) ==
    method \o "?" \o JoinPairs(SelectSeq(KeyOrder, LAMBDA k : k \in DOMAIN params), params)
        \o "#" \o secret

\* C12: for every parameter mapping the string sign_request hashes is
\* method, "?", the pairs key=value in ascending key order joined by single
\* "&" with no trailing "&", "#" and the secret, the values unaltered.
C12_HashedStringCanonical ==
    \A r \in sgSigs : r.hashed = Canonical(r.method, r.params, r.secret)

(***************************************************************************)
(* Properties of api_auth_params (checked under SpecAuth)                  *)
(***************************************************************************)
LowerAlnum ==
    {"a", "b", "c", "d", "e", "f", "g", "h", "i", "j", "k", "l", "m", "n", "o", "p",
     "q", "r", "s", "t", "u", "v", "w", "x", "y", "z",
     "0", "1", "2", "3", "4", "5", "6", "7", "8", "9"}

\* C19: api_auth_params raises and returns no dict when handle, api_key or
\* api_secret is unset or empty; otherwise it returns exactly apiKey, time and
\* rand, rand being six characters, each a lowercase letter or a digit.
C19_AuthParamsContract ==
    authRes.called =>
        IF handle = "" \/ api_key = "" \/ api_secret = ""
        THEN authRes.raised /\ "params" \notin DOMAIN authRes
        ELSE /\ ~authRes.raised
             /\ DOMAIN authRes.params = {"apiKey", "time", "rand"}
             /\ authRes.params["apiKey"] = api_key
             /\ authRes.params["rand"] = Join(authRand)
             /\ Len(authRand) = 6
             /\ \A i \in DOMAIN authRand : authRand[i] \in LowerAlnum

\* a complete session got its parameters, letters and digits mixed in rand
C19_Witness ==
    /\ authRes.called /\ ~authRes.raised
    /\ authRes.params["time"] = "300"
    /\ \E i, j \in DOMAIN authRand : authRand[i] = "a" /\ authRand[j] = "7"

(***************************************************************************)
(* Properties of the cache key (checked under SpecKey)                     *)
(***************************************************************************)
\* C14: mappings with the same key-value pairs get the same cache key, and a
\* request is never served the cached response of a request that differs from
\* it in method or in a key-value pair: the standings call_api returns are
\* those of the contest the caller asked for.
C14_ServedOwnResponse ==
    (pc = "done" /\ result.kind = "return" /\ result.data # NoneVal)
        => result.data = StandingsOf(callParams["contestId"])

(***************************************************************************)
(* Properties of _retry_with_backoff (checked under SpecRetry)             *)
(***************************************************************************)
Invocations == Len(rtOutcomes) + (IF rtPc = "calling" THEN 1 ELSE 0)

\* C20: _retry_with_backoff invokes func at most max_retries times, sleeps
\* base_delay * 2^i right before invocation i (from 0), stops at the first
\* invocation that succeeds and returns its value, and when all max_retries
\* invocations failed raises the failure of the last one.
C20_RetryContract ==
    rtPc # "idle" =>
        /\ Invocations <= rtMax
        /\ Len(rtSleeps) = Invocations
        /\ \A i \in 1..Len(rtSleeps) : rtSleeps[i] = rtBase * (2 ^ (i - 1))
        /\ \A i \in 1..Len(rtOutcomes) :
              rtOutcomes[i].ok =>
                  /\ i = Len(rtOutcomes)
                  /\ rtPc = "returned"
                  /\ rtResult = [kind |-> "return", value |-> rtOutcomes[i].value,
                                 error |-> ""]
        /\ (rtMax > 0 /\ Len(rtOutcomes) = rtMax /\ \A i \in 1..rtMax : ~rtOutcomes[i].ok)
              => /\ rtPc = "raised"
                 /\ rtResult = [kind |-> "raise", value |-> PyNone,
                                error |-> rtOutcomes[rtMax].error]

\* three invocations failed in two different ways, backed off by 2, 4 and 8
C20_Witness ==
    /\ rtPc = "raised"
    /\ rtSleeps = <<2, 4, 8>>
    /\ Len(rtOutcomes) = 3
    /\ rtOutcomes[1].error = "IOError"
    /\ rtOutcomes[3].error = "ValueError"

(***************************************************************************)
(* Further properties of the status command (checked under SpecStatus)     *)
(***************************************************************************)
\* C18: a status answer with a terminal verdict that lacks the time, the
\* memory or the test-count field still ends the poller in TERMINAL, the
\* verdict reported and each missing field shown as unknown or left out.
C18_MissingFieldsTolerated ==
    LET d == lastResp.data IN
    (/\ Polled /\ TerminalAnswer
     /\ ~({"timeConsumedMillis", "memoryConsumedBytes", "testCount"} \subseteq d.keys))
        => /\ printed.state = "TERMINAL"
           /\ printed.verdict = d.verdict
           /\ ("timeConsumedMillis" \notin d.keys => printed.time = "N/A")
           /\ ("memoryConsumedBytes" \notin d.keys => printed.memory = "N/A")
           /\ ("testCount" \notin d.keys => printed.tests = "")

(***************************************************************************)
(* Properties of web_login and submit (checked under SpecSubmit)           *)
(***************************************************************************)
LoginPostsSent == {i \in DOMAIN posts : posts[i].url = "enter"}

\* C15: web_login succeeds, and the session becomes logged-in, only when a
\* token was extracted from the site root and the answer to the login POST
\* lacks the failure phrase; with no token, a POST failing in transport or the
\* failure phrase it returns failure and the session stays not logged-in, and
\* with no token no login POST is sent.
C15_LoginOnlyWithTokenAndNoFailure ==
    /\ logged_in => (loginRun.ran /\ loginRun.ok)
    /\ loginRun.ran =>
          /\ loginRun.ok =>
                /\ loginRun.root \in Tokens /\ loginRun.post = "ok"
                /\ logged_in /\ csrf_token = loginRun.root
          /\ (loginRun.root \notin Tokens \/ loginRun.post \in {"raise", "invalid"})
                => (~loginRun.ok /\ ~logged_in)
          /\ loginRun.root \notin Tokens => LoginPostsSent = {}

\* a login stopped by the failure phrase after its POST was sent
C15_Witness ==
    /\ loginRun.ran /\ loginRun.root \in Tokens /\ loginRun.post = "invalid"
    /\ LoginPostsSent # {}
    /\ sbOutcome.state = "LOGIN_FAILED"

\* C16: a submit whose solution POST was sent reports the duplicate warning
\* exactly when the answer holds the duplicate-code phrase, whatever its URL;
\* success exactly when it does not and the final URL is on the contest's
\* own-submissions page; and a failure in every other case ("Submission
\* failed" for an answer, the error report for a POST that raised).
C16_SubmitOutcomes ==
    sbResp # NoSubmitResponse =>
        LET answered == sbResp.kind = "response" IN
        /\ sbPc = "end"
        /\ sbOutcome.state \in {"DUPLICATE_WARNING", "SUBMITTED", "SUBMISSION_FAILED",
                                "SUBMIT_ERROR"}
        /\ sbOutcome.state = "DUPLICATE_WARNING" <=> (answered /\ sbResp.dup)
        /\ sbOutcome.state = "SUBMITTED" <=> (answered /\ ~sbResp.dup /\ sbResp.onMy)
        /\ sbOutcome.state = "SUBMISSION_FAILED"
              <=> (answered /\ ~sbResp.dup /\ ~sbResp.onMy)
        /\ sbOutcome.state = "SUBMIT_ERROR" <=> ~answered

\* the duplicate-code phrase came with a final URL on the own-submissions page
C16_Witness ==
    /\ sbResp.kind = "response" /\ sbResp.dup /\ sbResp.onMy
    /\ sbOutcome.state = "DUPLICATE_WARNING"

\* C17: every POST, the login's and the solution's, carries a non-empty csrf
\* token, the one web_login scraped from the site root earlier in the process;
\* the solution POST is sent only by a logged-in session, and a submit whose
\* login failed sends no solution POST.
C17_PostsCarryScrapedToken ==
    /\ \A i \in DOMAIN posts :
          /\ posts[i].csrf_token # ""
          /\ loginRun.ran /\ loginRun.root \in Tokens
          /\ posts[i].csrf_token = loginRun.root
          /\ posts[i].url = "submit" => (posts[i].logged_in /\ loginRun.ok)
    /\ sbOutcome.state = "LOGIN_FAILED" =>
          (sbPc = "end" /\ \A i \in DOMAIN posts : posts[i].url = "enter")

\* the login POST and then the solution POST were sent
C17_Witness ==
    /\ Len(posts) = 2
    /\ posts[1].url = "enter" /\ ~posts[1].logged_in
    /\ posts[2].url = "submit" /\ posts[2].logged_in
    /\ sbPc = "end"

(***************************************************************************)
(* Properties of the retried request (checked under Spec)                  *)
(***************************************************************************)
\* the parameters of the request in flight other than its apiSig
OtherParams == [k \in DOMAIN curParams \ {"apiSig"} |-> curParams[k]]

\* C21: the apiSig of every signed request call_api dispatches, first attempt
\* or retry, is the signature of exactly the other parameters of that request:
\* the caller's params and the apiKey, time and rand being sent.
C21_SigOverOwnParams ==
    (pc = "request" /\ "apiSig" \in DOMAIN curParams) =>
        /\ DOMAIN OtherParams = DOMAIN callParams \cup {"apiKey", "time", "rand"}
        /\ curParams["apiSig"] = sign_request(callMethod, OtherParams)["apiSig"]

\* C22: every cache entry call_api writes, on the first attempt or on a retry
\* after a transport failure, is stored under the key of the caller's
\* original (method, params).
C22_StoredUnderCallersKey ==
    \A key \in wrote : key = cache_key(callMethod, callParams)

(***************************************************************************)
(* Session invariant (checked under SpecSubmit)                            *)
(***************************************************************************)
\* C23: in every reachable state a logged-in session holds a non-empty
\* csrf_token, and submit never fetches a token from the contest's submit
\* page on a logged-in session.
C23_LoggedInHasToken ==
    /\ logged_in => csrf_token # ""
    /\ sbFetched => ~logged_in

\* a logged-in session is about to send its solution
C23_Witness ==
    /\ logged_in /\ csrf_token \in Tokens
    /\ sbPc = "post"
    /\ ~sbFetched

====
